---------------------------- MODULE Spec2Model ----------------------------
(***************************************************************************)
(* Behavior Formatter of the ZMK keymap export (src/export/BehaviorMapper). *)
(*                                                                         *)
(* The module-level registry BEHAVIORS is a JavaScript Map whose values    *)
(* are object literals.  Both kinds of object have identity, so the model  *)
(* keeps two heaps: maps (Map objects: key -> reference of a record) and   *)
(* recs (Behavior records).  Every static method of BehaviorMapper is one  *)
(* atomic action (JavaScript runs each call to completion); ret is the     *)
(* last call with its arguments and its return value.                      *)
(*                                                                         *)
(* JavaScript values are tagged records: Null, Undefined, Num(n), Str(s),  *)
(* Bool(b), Obj(r) (reference of a Behavior record), MapObj(m) (reference  *)
(* of a Map).  Strings are TLC strings, built with \o.                     *)
(*                                                                         *)
(* The second part is the HID Usage Resolver (src/export/HidMapper): its   *)
(* static methods are pure functions of the usage and of the HID usage     *)
(* table, which is an input of every call (SpecHid).  The third part is    *)
(* the Keymap Text Generator (src/export/KeymapGenerator), which formats   *)
(* the layers a caller built and holds (SpecGen); held then keeps the      *)
(* Layer or the Keymap of each caller.                                     *)
(*                                                                         *)
(* TLC orders the fields of a record by the first occurrence of their      *)
(* names in the module; the record constructors list their fields in that  *)
(* order, so that no value is reordered after it was built.                *)
(***************************************************************************)
EXTENDS Integers, Sequences, FiniteSets, TLC

VARIABLES
  maps,  \* heap of Map objects: reference -> (key -> reference of a record)
  recs,  \* heap of Behavior records: reference -> record
  held,  \* per caller, the object it holds: a Map, Layer, Keymap (or Undefined)
  ret,   \* the last call: [op, arg, result]
  memo,  \* history: one earlier formatBinding call (SpecPure)
  nmut   \* number of writes the callers made to objects they hold (SpecCaller)

vars == <<maps, recs, held, ret, memo, nmut>>

-----------------------------------------------------------------------------
(* Bounds of the model *)

\* callers that may hold a Map returned by getAllBehaviors
NumCallers == 2
\* writes a caller may make to the objects it was handed (SpecCaller)
MaxMutations == 1

Callers == 1..NumCallers

-----------------------------------------------------------------------------
(* JavaScript values *)

Null == [t |-> "null"]
Undefined == [t |-> "undefined"]
Num(n) == [t |-> "number", v |-> n]
Str(s) == [t |-> "string", v |-> s]
Bool(b) == [t |-> "boolean", v |-> b]
Obj(r) == [t |-> "object", ref |-> r]
MapObj(m) == [t |-> "map", ref |-> m]

\* ToBoolean of the values that reach `||`, `!` and `?:` in BehaviorMapper
Truthy(v) ==
  CASE v.t = "null" -> FALSE
    [] v.t = "undefined" -> FALSE
    [] v.t = "string" -> v.v # ""
    [] v.t = "number" -> v.v # 0
    [] v.t = "boolean" -> v.v
    [] OTHER -> TRUE

DigitChar(d) == SubSeq("0123456789abcdefghijklmnopqrstuvwxyz", d + 1, d + 1)

RECURSIVE Digits(_, _)
Digits(n, radix) ==
  IF n < radix THEN DigitChar(n)
  ELSE Digits(n \div radix, radix) \o DigitChar(n % radix)

\* Number.prototype.toString(radix) of an integer
toString(n, radix) ==
  IF n < 0 THEN "-" \o Digits(0 - n, radix) ELSE Digits(n, radix)

-----------------------------------------------------------------------------
(* The registry *)

\* the reference of the Map object bound to the const BEHAVIORS
BEHAVIORS == 0

\* the seven object literals of the registry, by reference
InitRecs ==
  [r \in 0..6 |->
    CASE r = 0 -> [id |-> 0, code |-> "trans", displayName |-> "Transparent",
                   paramCount |-> 0, description |-> "Pass through to lower layer"]
      [] r = 1 -> [id |-> 1, code |-> "kp", displayName |-> "Key Press",
                   paramCount |-> 1, description |-> "Basic key press"]
      [] r = 2 -> [id |-> 2, code |-> "mt", displayName |-> "Mod-Tap",
                   paramCount |-> 2, description |-> "Modifier when held, key when tapped"]
      [] r = 3 -> [id |-> 3, code |-> "lt", displayName |-> "Layer-Tap",
                   paramCount |-> 2, description |-> "Layer when held, key when tapped"]
      [] r = 4 -> [id |-> 4, code |-> "mo", displayName |-> "Momentary Layer",
                   paramCount |-> 1, description |-> "Activate layer while held"]
      [] r = 5 -> [id |-> 5, code |-> "tog", displayName |-> "Toggle Layer",
                   paramCount |-> 1, description |-> "Toggle layer on/off"]
      [] r = 6 -> [id |-> 6, code |-> "bt", displayName |-> "Bluetooth",
                   paramCount |-> 1, description |-> "Bluetooth control"]]

\* the entries of new Map([[0, {...}], ..., [6, {...}]]): key -> reference
InitEntries == [k \in 0..6 |-> k]

\* Map.prototype.get
MapGet(m, k) == IF k \in DOMAIN maps[m] THEN Obj(maps[m][k]) ELSE Undefined

\* new Map(iterable of another Map): the entries are copied, the values
\* (references) are not cloned
NewMap(m) == [k \in DOMAIN maps[m] |-> maps[m][k]]

-----------------------------------------------------------------------------
(* BehaviorMapper: the static methods, as functions of the current heaps *)

\* formatParam with the radix of the marker forgotten: value.toString()
formatParam_DecimalMarker(value, behavior, getKeyName) ==
  IF behavior.code = "kp" \/ behavior.code = "mt"
  THEN LET keyName == getKeyName[value]
       IN  IF Truthy(keyName) THEN keyName.v
           ELSE "/* HID 0x" \o toString(value, 10) \o " */"
  ELSE toString(value, 10)

\* formatParam that takes only kp for a key behavior
formatParam_KpOnly(value, behavior, getKeyName) ==
  IF behavior.code = "kp"
  THEN LET keyName == getKeyName[value]
       IN  IF Truthy(keyName) THEN keyName.v
           ELSE "/* HID 0x" \o toString(value, 16) \o " */"
  ELSE toString(value, 10)

\* formatParam that resolves the parameter of every behavior but bt
formatParam_ResolvesLayers(value, behavior, getKeyName) ==
  IF behavior.code # "bt"
  THEN LET keyName == getKeyName[value]
       IN  IF Truthy(keyName) THEN keyName.v
           ELSE "/* HID 0x" \o toString(value, 16) \o " */"
  ELSE toString(value, 10)

\* private static formatParam(value, behavior, getKeyName); behavior is the
\* record itself, getKeyName a function from usage codes to Str(_) or Null
formatParam(value, behavior, getKeyName) ==
  IF behavior.code = "kp" \/ behavior.code = "mt"
  THEN LET keyName == getKeyName[value]
       IN  IF Truthy(keyName) THEN keyName.v
           ELSE "/* HID 0x" \o toString(value, 16) \o " */"
  ELSE IF behavior.code = "mo" \/ behavior.code = "tog"
  THEN toString(value, 10)
  ELSE toString(value, 10)

\* the presence of param2 tested by truthiness: binding.param2 ? ... : ...
HasParam2_Truthy(binding) == Truthy(binding.param2)

\* binding.param2 !== null && binding.param2 !== undefined
HasParam2(binding) == binding.param2 # Null /\ binding.param2 # Undefined

\* layer-tap that resolves its layer number like a key
formatLayerTap_ResolvesLayer(binding, getKeyName) ==
  LET layerNum ==
        IF Truthy(getKeyName[binding.param1])
        THEN getKeyName[binding.param1].v
        ELSE toString(binding.param1, 10)
      keyName ==
        IF HasParam2(binding)
        THEN (IF Truthy(getKeyName[binding.param2.v])
              THEN getKeyName[binding.param2.v].v
              ELSE "/* HID 0x" \o toString(binding.param2.v, 16) \o " */")
        ELSE "/* missing key */"
  IN  "&lt " \o layerNum \o " " \o keyName

\* formatBinding, lines 76-83: layer-tap, param1 is the layer number
formatLayerTap(binding, getKeyName) ==
  LET layerNum == toString(binding.param1, 10)
      keyName ==
        IF HasParam2(binding)
        THEN (IF Truthy(getKeyName[binding.param2.v])
              THEN getKeyName[binding.param2.v].v
              ELSE "/* HID 0x" \o toString(binding.param2.v, 16) \o " */")
        ELSE "/* missing key */"
  IN  "&lt " \o layerNum \o " " \o keyName

\* formatBinding, lines 85-90: mod-tap, both params are keys or modifiers
formatModTap(binding, behavior, getKeyName) ==
  LET param1 == formatParam(binding.param1, behavior, getKeyName)
      param2 ==
        IF HasParam2(binding)
        THEN formatParam(binding.param2.v, behavior, getKeyName)
        ELSE "/* missing param2 */"
  IN  "&" \o behavior.code \o " " \o param1 \o " " \o param2

\* formatKnown without the case of trans, and with the one-parameter case
\* taken for every behavior of fewer than two parameters
formatKnown_TransHasParam(binding, behavior, getKeyName) ==
  IF behavior.paramCount < 2
  THEN "&" \o behavior.code \o " "
           \o formatParam(binding.param1, behavior, getKeyName)
  ELSE (IF behavior.code = "lt"
        THEN formatLayerTap(binding, getKeyName)
        ELSE formatModTap(binding, behavior, getKeyName))

\* formatBinding, lines 63-93: the behavior was found in BEHAVIORS
formatKnown(binding, behavior, getKeyName) ==
  IF behavior.code = "trans" THEN "&trans"
  ELSE IF behavior.paramCount = 1
  THEN "&" \o behavior.code \o " "
           \o formatParam(binding.param1, behavior, getKeyName)
  ELSE IF behavior.paramCount = 2
  THEN (IF behavior.code = "lt"
        THEN formatLayerTap(binding, getKeyName)
        ELSE formatModTap(binding, behavior, getKeyName))
  ELSE "&" \o behavior.code

\* formatBinding that takes an unknown behavior for transparent:
\* BEHAVIORS.get(binding.behaviorId) ?? BEHAVIORS.get(0)
formatBinding_UnknownAsTrans(binding, getKeyName) ==
  LET behavior == MapGet(BEHAVIORS, binding.behaviorId)
  IN  IF ~Truthy(behavior)
      THEN formatKnown(binding, recs[MapGet(BEHAVIORS, 0).ref], getKeyName)
      ELSE formatKnown(binding, recs[behavior.ref], getKeyName)

\* formatBinding that leaves a binding of an unknown behavior out
formatBinding_UnknownOmitted(binding, getKeyName) ==
  LET behavior == MapGet(BEHAVIORS, binding.behaviorId)
  IN  IF ~Truthy(behavior) THEN ""
      ELSE formatKnown(binding, recs[behavior.ref], getKeyName)

\* static formatBinding(binding, getKeyName)
formatBinding(binding, getKeyName) ==
  LET behavior == MapGet(BEHAVIORS, binding.behaviorId)
  IN  IF ~Truthy(behavior)
      THEN "/* Unknown behavior " \o toString(binding.behaviorId, 10) \o " */"
      ELSE formatKnown(binding, recs[behavior.ref], getKeyName)

\* static getBehavior(behaviorId): BEHAVIORS.get(behaviorId) || null
getBehavior(behaviorId) ==
  LET found == MapGet(BEHAVIORS, behaviorId)
  IN  IF Truthy(found) THEN found ELSE Null

\* getBehaviorCode written with optional chaining alone: behavior?.code
getBehaviorCode_Optional(behaviorId) ==
  LET behavior == MapGet(BEHAVIORS, behaviorId)
  IN  IF behavior = Undefined THEN Undefined ELSE Str(recs[behavior.ref].code)

\* static getBehaviorCode(behaviorId)
getBehaviorCode(behaviorId) ==
  LET behavior == MapGet(BEHAVIORS, behaviorId)
  IN  IF Truthy(behavior) THEN Str(recs[behavior.ref].code) ELSE Null

\* behavior?.code, behavior being the result of BEHAVIORS.get
OptCode(behavior) ==
  IF behavior = Undefined THEN Undefined ELSE Str(recs[behavior.ref].code)

\* static isLayerBehavior(behaviorId)
isLayerBehavior(behaviorId) ==
  LET behavior == MapGet(BEHAVIORS, behaviorId)
  IN  Bool(OptCode(behavior) = Str("lt") \/ OptCode(behavior) = Str("mo")
             \/ OptCode(behavior) = Str("tog"))

\* static getParamCount(behaviorId): behavior?.paramCount ?? 0
getParamCount(behaviorId) ==
  LET behavior == MapGet(BEHAVIORS, behaviorId)
  IN  IF behavior = Undefined THEN Num(0) ELSE Num(recs[behavior.ref].paramCount)

\* static getAllBehaviors(): the entries of the Map it allocates
getAllBehaviors == NewMap(BEHAVIORS)

-----------------------------------------------------------------------------
(* Inputs of the calls *)

\* behaviorId: the registered ids 0..6 and ids next to and far from them
BehaviorIds == {-1, 0, 1, 2, 3, 4, 5, 6, 7, 999}

\* param1 and param2 when present: 0, a usage the test resolver knows (0x04)
\* and one it does not, whose hexadecimal and decimal forms differ (0xFF)
ParamValues == {0, 4, 255}

Param2Values == {Null, Undefined} \cup {Num(p) : p \in ParamValues}

\* binding.position: two key positions
Positions == {0, 7}

Bindings ==
  [param2 : Param2Values, param1 : ParamValues, behaviorId : BehaviorIds,
   position : Positions]

\* a resolver that resolves nothing
resolveNone == [u \in ParamValues |-> Null]

\* mockGetKeyName of the tests: keyMap[hidUsage] || null
mockGetKeyName == [u \in ParamValues |-> IF u = 4 THEN Str("Q") ELSE Null]

\* a resolver that names every usage, one of them with the empty string
resolveAll ==
  [u \in ParamValues |->
    CASE u = 0 -> Str("") [] u = 4 -> Str("A") [] OTHER -> Str("X")]

Resolvers == {resolveNone, mockGetKeyName, resolveAll}

\* the calls of the specifications that remember an earlier call or let the
\* callers write: every behaviorId, present and absent param2, every position
SmallBindings ==
  {b \in Bindings : b.param1 = 255 /\ b.param2 \in {Null, Num(4)}}

SmallResolvers == {resolveNone, resolveAll}

-----------------------------------------------------------------------------
(* The state machine *)

NoCall == [op |-> "none", arg |-> Undefined, result |-> Undefined]

Init ==
  /\ maps = [m \in {BEHAVIORS} \cup Callers |->
               IF m = BEHAVIORS THEN InitEntries ELSE <<>>]
  /\ recs = InitRecs
  /\ held = [c \in Callers |-> Undefined]
  /\ ret = NoCall
  /\ memo = NoCall
  /\ nmut = 0

\* a call that only reads: its record in ret, nothing else changes
Returns(op, arg, result) ==
  /\ ret' = [op |-> op, arg |-> arg, result |-> result]
  /\ UNCHANGED <<maps, recs, held, memo, nmut>>

CallFormatBinding(binding, getKeyName) ==
  Returns("formatBinding", [getKeyName |-> getKeyName, binding |-> binding],
          Str(formatBinding(binding, getKeyName)))

\* getBehavior as get-or-create: an unknown id is entered in BEHAVIORS with
\* the transparent behavior, BEHAVIORS.set(behaviorId, BEHAVIORS.get(0))
CallGetBehavior_GetOrCreate(behaviorId) ==
  /\ maps' = IF behaviorId \in DOMAIN maps[BEHAVIORS] THEN maps
             ELSE [maps EXCEPT ![BEHAVIORS] =
                     (behaviorId :> maps[BEHAVIORS][0]) @@ maps[BEHAVIORS]]
  /\ ret' = [op |-> "getBehavior", arg |-> behaviorId,
             result |-> IF behaviorId \in DOMAIN maps[BEHAVIORS]
                        THEN Obj(maps[BEHAVIORS][behaviorId])
                        ELSE Obj(maps[BEHAVIORS][0])]
  /\ UNCHANGED <<recs, held, memo, nmut>>

CallGetBehavior(behaviorId) ==
  Returns("getBehavior", behaviorId, getBehavior(behaviorId))

CallGetBehaviorCode(behaviorId) ==
  Returns("getBehaviorCode", behaviorId, getBehaviorCode(behaviorId))

CallIsLayerBehavior(behaviorId) ==
  Returns("isLayerBehavior", behaviorId, isLayerBehavior(behaviorId))

\* getParamCount that caches the default of an unknown id as an entry of
\* BEHAVIORS
CallGetParamCount_Caches(behaviorId) ==
  /\ maps' = IF behaviorId \in DOMAIN maps[BEHAVIORS] THEN maps
             ELSE [maps EXCEPT ![BEHAVIORS] =
                     (behaviorId :> maps[BEHAVIORS][0]) @@ maps[BEHAVIORS]]
  /\ ret' = [op |-> "getParamCount", arg |-> behaviorId,
             result |-> getParamCount(behaviorId)]
  /\ UNCHANGED <<recs, held, memo, nmut>>

CallGetParamCount(behaviorId) ==
  Returns("getParamCount", behaviorId, getParamCount(behaviorId))

\* caller c calls getAllBehaviors: a Map object is allocated (at c's own
\* reference; the Map c held before is dropped) and returned
CallGetAllBehaviors(c) ==
  /\ maps' = [maps EXCEPT ![c] = getAllBehaviors]
  /\ held' = [held EXCEPT ![c] = MapObj(c)]
  /\ ret' = [op |-> "getAllBehaviors", arg |-> c, result |-> MapObj(c)]
  /\ UNCHANGED <<recs, memo, nmut>>

FormatBindingStep ==
  \E binding \in Bindings, getKeyName \in Resolvers :
    CallFormatBinding(binding, getKeyName)

GetBehaviorStep == \E behaviorId \in BehaviorIds : CallGetBehavior(behaviorId)

GetBehaviorCodeStep ==
  \E behaviorId \in BehaviorIds : CallGetBehaviorCode(behaviorId)

IsLayerBehaviorStep ==
  \E behaviorId \in BehaviorIds : CallIsLayerBehavior(behaviorId)

GetParamCountStep ==
  \E behaviorId \in BehaviorIds : CallGetParamCount(behaviorId)

GetAllBehaviorsStep == \E c \in Callers : CallGetAllBehaviors(c)

Accessors ==
  \/ GetBehaviorStep
  \/ GetBehaviorCodeStep
  \/ IsLayerBehaviorStep
  \/ GetParamCountStep
  \/ GetAllBehaviorsStep

Next == FormatBindingStep \/ Accessors

\* the operations of the Behavior Formatter, called in any order by any caller
Spec == Init /\ [][Next]_vars

-----------------------------------------------------------------------------
(* Two calls of formatBinding compared: memo keeps one earlier call *)

\* history: the call just made is kept as the earlier of two calls
Remember ==
  /\ ret.op = "formatBinding"
  /\ memo = NoCall
  /\ memo' = ret
  /\ UNCHANGED <<maps, recs, held, ret, nmut>>

SmallFormatBindingStep ==
  \E binding \in SmallBindings, getKeyName \in SmallResolvers :
    CallFormatBinding(binding, getKeyName)

NextPure == SmallFormatBindingStep \/ Accessors \/ Remember

SpecPure == Init /\ [][NextPure]_vars

-----------------------------------------------------------------------------
(* Callers that write to what getAllBehaviors handed them *)

\* the record of a caller's own statement in ret
Wrote(c) ==
  /\ nmut < MaxMutations
  /\ nmut' = nmut + 1
  /\ ret' = [op |-> "write", arg |-> c, result |-> Undefined]
  /\ UNCHANGED <<held, memo>>

\* behaviors.delete(k) on the Map c holds
CallerMapDelete(c, k) ==
  /\ held[c] # Undefined
  /\ k \in DOMAIN maps[held[c].ref]
  /\ maps' = [maps EXCEPT ![held[c].ref] =
                [j \in DOMAIN maps[held[c].ref] \ {k} |-> maps[held[c].ref][j]]]
  /\ UNCHANGED recs
  /\ Wrote(c)

\* behaviors.set(k, behaviors.get(j)) on the Map c holds: an entry is added
\* or replaced
CallerMapSet(c, k, j) ==
  /\ held[c] # Undefined
  /\ j \in DOMAIN maps[held[c].ref]
  /\ (IF k \in DOMAIN maps[held[c].ref]
      THEN maps[held[c].ref][k] # maps[held[c].ref][j] ELSE TRUE)
  /\ maps' = [maps EXCEPT ![held[c].ref] =
                (k :> maps[held[c].ref][j]) @@ maps[held[c].ref]]
  /\ UNCHANGED recs
  /\ Wrote(c)

\* behaviors.get(k).code = code
CallerSetCode(c, k, code) ==
  /\ held[c] # Undefined
  /\ k \in DOMAIN maps[held[c].ref]
  /\ recs[maps[held[c].ref][k]].code # code
  /\ recs' = [recs EXCEPT ![maps[held[c].ref][k]].code = code]
  /\ UNCHANGED maps
  /\ Wrote(c)

\* behaviors.get(k).paramCount = n
CallerSetParamCount(c, k, n) ==
  /\ held[c] # Undefined
  /\ k \in DOMAIN maps[held[c].ref]
  /\ recs[maps[held[c].ref][k]].paramCount # n
  /\ recs' = [recs EXCEPT ![maps[held[c].ref][k]].paramCount = n]
  /\ UNCHANGED maps
  /\ Wrote(c)

\* the codes a caller writes: one that is no behavior and one of another entry
WrittenCodes == {"xx", "kp"}

CallerStep ==
  \E c \in Callers :
    \/ \E k \in BehaviorIds : CallerMapDelete(c, k)
    \/ \E k \in BehaviorIds, j \in BehaviorIds : CallerMapSet(c, k, j)
    \/ \E k \in BehaviorIds, code \in WrittenCodes : CallerSetCode(c, k, code)
    \/ \E k \in BehaviorIds, n \in 0..2 : CallerSetParamCount(c, k, n)

NextCaller == SmallFormatBindingStep \/ Accessors \/ CallerStep

SpecCaller == Init /\ [][NextCaller]_vars

-----------------------------------------------------------------------------
(* What the specification expects, written out for the inputs of the model *)

Registered == 0..6

\* the decimal form of the integers of the model
ExpectedDecimal(n) ==
  CASE n = -1 -> "-1" [] n = 0 -> "0" [] n = 1 -> "1" [] n = 2 -> "2"
    [] n = 3 -> "3" [] n = 4 -> "4" [] n = 5 -> "5" [] n = 6 -> "6"
    [] n = 7 -> "7" [] n = 255 -> "255" [] n = 999 -> "999"

\* the lowercase hexadecimal form of the parameters of the model
ExpectedHex(n) == CASE n = 0 -> "0" [] n = 4 -> "4" [] n = 255 -> "ff"

ExpectedCode(id) ==
  CASE id = 0 -> "trans" [] id = 1 -> "kp" [] id = 2 -> "mt" [] id = 3 -> "lt"
    [] id = 4 -> "mo" [] id = 5 -> "tog" [] id = 6 -> "bt"

ExpectedParamCount(id) ==
  CASE id = 0 -> 0 [] id = 1 -> 1 [] id = 2 -> 2 [] id = 3 -> 2
    [] id = 4 -> 1 [] id = 5 -> 1 [] id = 6 -> 1

\* the resolver resolves usage u: it returns a name (one that is not empty)
Resolves(getKeyName, u) == getKeyName[u] # Null /\ getKeyName[u] # Str("")

\* the name of a usage, or the hexadecimal-usage comment marker
KeyOrMarker(getKeyName, u) ==
  IF Resolves(getKeyName, u) THEN getKeyName[u].v
  ELSE "/* HID 0x" \o ExpectedHex(u) \o " */"

Absent(binding) == binding.param2 \in {Null, Undefined}

\* the last call was formatBinding of a binding with this behaviorId
Formatted(ids) == ret.op = "formatBinding" /\ ret.arg.binding.behaviorId \in ids

-----------------------------------------------------------------------------
(* The claims *)

\* C1: for a behaviorId that is not registered (not 0..6) formatBinding
\* returns the string '/* Unknown behavior <behaviorId> */', whatever
\* param1, param2 and the resolver are; it returns a string in every case.
C1_UnknownBehaviorMarker ==
  Formatted(BehaviorIds \ Registered) =>
    ret.result =
      Str("/* Unknown behavior " \o ExpectedDecimal(ret.arg.binding.behaviorId)
            \o " */")

\* C1 witness: formatBinding of behaviorId 999 with a present param2 and a
\* resolver that names every usage returned the marker of the test
C1_Witness ==
  /\ Formatted({999})
  /\ ret.arg.binding.param2 = Num(4)
  /\ ret.arg.getKeyName = resolveAll
  /\ ret.result = Str("/* Unknown behavior 999 */")

\* C2: for kp (behaviorId 1) formatBinding returns '&kp <name>', <name> the
\* resolver's name of param1 when it resolves it and else '/* HID 0x<h> */'
\* with <h> param1 in lowercase hexadecimal; param2 plays no part.
C2_KeyPress ==
  Formatted({1}) =>
    ret.result =
      Str("&kp " \o KeyOrMarker(ret.arg.getKeyName, ret.arg.binding.param1))

\* C2 witness: kp of the unresolved usage 0xFF, with a param2 that the
\* resolver would resolve, returned the marker of the test
C2_Witness ==
  /\ Formatted({1})
  /\ ret.arg.binding.param1 = 255
  /\ ret.arg.binding.param2 = Num(4)
  /\ ret.arg.getKeyName = mockGetKeyName
  /\ ret.result = Str("&kp /* HID 0xff */")

\* C3: for lt (behaviorId 3) formatBinding returns '&lt <layer> <key>':
\* <layer> is param1 in decimal, never resolved; <key> is the resolver's name
\* of param2 if present and resolved, the hexadecimal marker of param2 if
\* present and unresolved, '/* missing key */' if param2 is absent.
C3_LayerTap ==
  Formatted({3}) =>
    ret.result =
      Str("&lt " \o ExpectedDecimal(ret.arg.binding.param1) \o " "
            \o (IF Absent(ret.arg.binding) THEN "/* missing key */"
                ELSE KeyOrMarker(ret.arg.getKeyName, ret.arg.binding.param2.v)))

\* C3 witness: lt whose layer number 4 the resolver would name, with a
\* resolved key
C3_Witness ==
  /\ Formatted({3})
  /\ ret.arg.binding.param1 = 4
  /\ ret.arg.binding.param2 = Num(4)
  /\ ret.arg.getKeyName = mockGetKeyName
  /\ ret.result = Str("&lt 4 Q")

\* C4: for mt (behaviorId 2) formatBinding returns '&mt <p1> <p2>': <p1> is
\* the resolver's name of param1 or its hexadecimal marker, <p2> the same
\* for param2 when present and '/* missing param2 */' when absent.
C4_ModTap ==
  Formatted({2}) =>
    ret.result =
      Str("&mt " \o KeyOrMarker(ret.arg.getKeyName, ret.arg.binding.param1)
            \o " "
            \o (IF Absent(ret.arg.binding) THEN "/* missing param2 */"
                ELSE KeyOrMarker(ret.arg.getKeyName, ret.arg.binding.param2.v)))

\* C4 witness: mt of a resolved param1 and an unresolved param2
C4_Witness ==
  /\ Formatted({2})
  /\ ret.arg.binding.param1 = 4
  /\ ret.arg.binding.param2 = Num(255)
  /\ ret.arg.getKeyName = mockGetKeyName
  /\ ret.result = Str("&mt Q /* HID 0xff */")

C6_Transparent == Formatted({0}) => ret.result = Str("&trans")

\* C6 witness: trans with both parameters present and resolvable
C6_Witness ==
  /\ Formatted({0})
  /\ ret.arg.binding.param1 = 4
  /\ ret.arg.binding.param2 = Num(4)
  /\ ret.arg.getKeyName = resolveAll
  /\ ret.result = Str("&trans")

\* what formatBinding returns on the registry as initialised
ExpectedFormat(binding, getKeyName) ==
  CASE binding.behaviorId \notin Registered ->
         "/* Unknown behavior " \o ExpectedDecimal(binding.behaviorId) \o " */"
    [] binding.behaviorId = 0 -> "&trans"
    [] binding.behaviorId = 1 ->
         "&kp " \o KeyOrMarker(getKeyName, binding.param1)
    [] binding.behaviorId = 2 ->
         "&mt " \o KeyOrMarker(getKeyName, binding.param1) \o " "
           \o (IF Absent(binding) THEN "/* missing param2 */"
               ELSE KeyOrMarker(getKeyName, binding.param2.v))
    [] binding.behaviorId = 3 ->
         "&lt " \o ExpectedDecimal(binding.param1) \o " "
           \o (IF Absent(binding) THEN "/* missing key */"
               ELSE KeyOrMarker(getKeyName, binding.param2.v))
    [] OTHER ->
         "&" \o ExpectedCode(binding.behaviorId) \o " "
           \o ExpectedDecimal(binding.param1)

\* C7: whatever a caller does to a Map getAllBehaviors returned or to the
\* records reachable from it, every later call of the Behavior Formatter
\* returns what it returns on the registry as initialised.
C7_CallerCannotMutateRegistry ==
  /\ ret.op = "formatBinding" =>
       ret.result = Str(ExpectedFormat(ret.arg.binding, ret.arg.getKeyName))
  /\ ret.op = "getBehavior" =>
       IF ret.arg \in Registered
       THEN ret.result.t = "object" /\ recs[ret.result.ref] = InitRecs[ret.arg]
       ELSE ret.result = Null
  /\ ret.op = "getBehaviorCode" =>
       ret.result =
         (IF ret.arg \in Registered THEN Str(ExpectedCode(ret.arg)) ELSE Null)
  /\ ret.op = "getParamCount" =>
       ret.result =
         Num(IF ret.arg \in Registered THEN ExpectedParamCount(ret.arg) ELSE 0)
  /\ ret.op = "isLayerBehavior" => ret.result = Bool(ret.arg \in {3, 4, 5})
  /\ ret.op = "getAllBehaviors" =>
       /\ DOMAIN maps[ret.result.ref] = Registered
       /\ \A k \in Registered : recs[maps[ret.result.ref][k]] = InitRecs[k]

\* C8: after any interleaving of calls of the Behavior Formatter by the
\* callers, the registry holds exactly the entries 0..6 with the codes trans,
\* kp, mt, lt, mo, tog, bt and the parameter counts 0, 1, 2, 2, 1, 1, 1.
C8_RegistryImmutable ==
  /\ DOMAIN maps[BEHAVIORS] = Registered
  /\ \A id \in Registered :
       /\ recs[maps[BEHAVIORS][id]].id = id
       /\ recs[maps[BEHAVIORS][id]].code = ExpectedCode(id)
       /\ recs[maps[BEHAVIORS][id]].paramCount = ExpectedParamCount(id)

\* C8 witness: every caller has called getAllBehaviors and holds its Map,
\* and a lookup of an unknown id was the last call
C8_Witness ==
  /\ \A c \in Callers : held[c] = MapObj(c)
  /\ ret.op = "getBehavior"
  /\ ret.arg = 999

\* C9: two calls of formatBinding with the same behaviorId, param1, param2
\* and resolver return the same string, whatever was called before or
\* between them and whatever the position of the two bindings.
C9_FormatBindingPure ==
  (/\ memo.op = "formatBinding"
   /\ ret.op = "formatBinding"
   /\ memo.arg.binding.behaviorId = ret.arg.binding.behaviorId
   /\ memo.arg.binding.param1 = ret.arg.binding.param1
   /\ memo.arg.binding.param2 = ret.arg.binding.param2
   /\ memo.arg.getKeyName = ret.arg.getKeyName)
    => memo.result = ret.result

\* C9 witness: the same mod-tap binding was formatted twice at two
\* positions with the same resolver, and every caller called getAllBehaviors
C9_Witness ==
  /\ memo.op = "formatBinding"
  /\ ret.op = "formatBinding"
  /\ ret.arg.binding.behaviorId = 2
  /\ memo.arg.binding.behaviorId = 2
  /\ memo.arg.binding.param2 = ret.arg.binding.param2
  /\ memo.arg.getKeyName = ret.arg.getKeyName
  /\ memo.arg.binding.position # ret.arg.binding.position
  /\ \A c \in Callers : held[c] = MapObj(c)

\* C10: getBehavior and getBehaviorCode return none exactly for the ids that
\* are not in the registry and getParamCount returns 0 for them; for an id
\* in the registry they return its entry, its code and its paramCount, which
\* is 0, 1 or 2.
C10_AccessorsAgree ==
  /\ ret.op = "getBehavior" =>
       /\ ret.result = Null <=> ret.arg \notin DOMAIN maps[BEHAVIORS]
       /\ ret.arg \in DOMAIN maps[BEHAVIORS] =>
            ret.result = Obj(maps[BEHAVIORS][ret.arg])
  /\ ret.op = "getBehaviorCode" =>
       /\ ret.result = Null <=> ret.arg \notin DOMAIN maps[BEHAVIORS]
       /\ ret.arg \in DOMAIN maps[BEHAVIORS] =>
            ret.result = Str(recs[maps[BEHAVIORS][ret.arg]].code)
  /\ ret.op = "getParamCount" =>
       /\ ret.arg \notin DOMAIN maps[BEHAVIORS] => ret.result = Num(0)
       /\ ret.arg \in DOMAIN maps[BEHAVIORS] =>
            /\ ret.result = Num(recs[maps[BEHAVIORS][ret.arg]].paramCount)
            /\ ret.result.v \in {0, 1, 2}

\* C10 witness: getParamCount of the registered id 0 returned 0, the
\* paramCount of trans
C10_Witness ==
  /\ ret.op = "getParamCount"
  /\ ret.arg = 0
  /\ ret.result = Num(0)

-----------------------------------------------------------------------------
(* HidMapper: strings and the regular expressions of its methods *)

UpperCaseLetters == "ABCDEFGHIJKLMNOPQRSTUVWXYZ"
LowerCaseLetters == "abcdefghijklmnopqrstuvwxyz"
DecimalDigits == "0123456789"

CharAt(s, i) == SubSeq(s, i, i)
CharsOf(s) == {CharAt(s, i) : i \in 1..Len(s)}

\* the character classes [A-Z], [0-9] and [a-zA-Z0-9]
IsUpper(c) == c \in CharsOf(UpperCaseLetters)
IsDigit(c) == c \in CharsOf(DecimalDigits)
IsAlnum(c) == IsUpper(c) \/ IsDigit(c) \/ c \in CharsOf(LowerCaseLetters)

StartsWith(s, prefix) ==
  Len(s) >= Len(prefix) /\ SubSeq(s, 1, Len(prefix)) = prefix

\* /^[A-Z]$/.test(s)
IsSingleUpper(s) == Len(s) = 1 /\ IsUpper(s)

\* /^N[0-9]$/.test(s)
IsNDigit(s) == Len(s) = 2 /\ CharAt(s, 1) = "N" /\ IsDigit(CharAt(s, 2))

\* /^F[0-9]+$/.test(s)
IsFDigits(s) ==
  /\ Len(s) >= 2
  /\ CharAt(s, 1) = "F"
  /\ \A i \in 2..Len(s) : IsDigit(CharAt(s, i))

\* s.replace(/^Keyboard /, '')
StripKeyboardPrefix(s) ==
  IF StartsWith(s, "Keyboard ")
  THEN SubSeq(s, Len("Keyboard ") + 1, Len(s))
  ELSE s

\* s.replace(/[^a-zA-Z0-9]/g, '_')
RECURSIVE ReplaceNonAlnum(_)
ReplaceNonAlnum(s) ==
  IF s = "" THEN ""
  ELSE (IF IsAlnum(CharAt(s, 1)) THEN CharAt(s, 1) ELSE "_")
       \o ReplaceNonAlnum(SubSeq(s, 2, Len(s)))

\* s.replace(/_+/g, '_')
RECURSIVE CollapseUnderscores(_)
CollapseUnderscores(s) ==
  IF Len(s) < 2 THEN s
  ELSE IF CharAt(s, 1) = "_" /\ CharAt(s, 2) = "_"
  THEN CollapseUnderscores(SubSeq(s, 2, Len(s)))
  ELSE CharAt(s, 1) \o CollapseUnderscores(SubSeq(s, 2, Len(s)))

\* s.replace(/^_|_$/g, ''): one underscore at the start and one at the end
TrimUnderscore(s) ==
  LET a == IF StartsWith(s, "_") THEN SubSeq(s, 2, Len(s)) ELSE s
  IN  IF Len(a) > 0 /\ CharAt(a, Len(a)) = "_"
      THEN SubSeq(a, 1, Len(a) - 1)
      ELSE a

\* toUpperCase of one character of the model's (ASCII) strings
UpperChar(c) ==
  IF c \in CharsOf(LowerCaseLetters)
  THEN LET i == CHOOSE j \in 1..Len(LowerCaseLetters) :
                  CharAt(LowerCaseLetters, j) = c
       IN  CharAt(UpperCaseLetters, i)
  ELSE c

\* s.toUpperCase()
RECURSIVE toUpperCase(_)
toUpperCase(s) ==
  IF s = "" THEN ""
  ELSE UpperChar(CharAt(s, 1)) \o toUpperCase(SubSeq(s, 2, Len(s)))

-----------------------------------------------------------------------------
(* HidMapper *)

HID_PAGE_KEYBOARD == 7

HID_PAGE_CONSUMER == 12

\* KEY_NAME_OVERRIDES, without the six keys that a string of the model cannot
\* hold: the open-box space symbol, the four arrows and the backquote
KEY_NAME_OVERRIDES ==
  [l \in {"1", "2", "3", "4", "5", "6", "7", "8", "9", "0",
          "Ret", "ESC", "BkSp", "TAB", "CAPS",
          "Ctrl", "Shft", "Alt", "GUI", "AltG",
          "F1", "F2", "F3", "F4", "F5", "F6",
          "F7", "F8", "F9", "F10", "F11", "F12",
          "HOME", "END", "PGUP", "PGDN", "INS", "DEL",
          "-", "=", "{", "}", "\\", ";", "'", ",", ".", "/"} |->
    CASE l = "0" -> "N0"
      [] Len(l) = 1 /\ IsDigit(l) -> "N" \o l
      [] l = "Ret" -> "ENTER"
      [] l = "BkSp" -> "BSPC"
      [] l = "Ctrl" -> "LCTRL"
      [] l = "Shft" -> "LSHFT"
      [] l = "Alt" -> "LALT"
      [] l = "GUI" -> "LGUI"
      [] l = "AltG" -> "RALT"
      [] l = "PGUP" -> "PG_UP"
      [] l = "PGDN" -> "PG_DN"
      [] l = "-" -> "MINUS"
      [] l = "=" -> "EQUAL"
      [] l = "{" -> "LBKT"
      [] l = "}" -> "RBKT"
      [] l = "\\" -> "BSLH"
      [] l = ";" -> "SEMI"
      [] l = "'" -> "SQT"
      [] l = "," -> "COMMA"
      [] l = "." -> "DOT"
      [] l = "/" -> "FSLH"
      [] OTHER -> l]

\* the properties an object literal inherits from Object.prototype
ObjectPrototype ==
  {"constructor", "toString", "toLocaleString", "valueOf", "hasOwnProperty",
   "isPrototypeOf", "propertyIsEnumerable", "__proto__"}

\* Object.prototype[name]: a function, or for __proto__ Object.prototype
\* itself; an object in both cases
Inherited(name) == [t |-> "inherited", name |-> name]

\* KEY_NAME_OVERRIDES[label], a property read of an object literal
OverrideOf(label) ==
  IF label \in DOMAIN KEY_NAME_OVERRIDES THEN Str(KEY_NAME_OVERRIDES[label])
  ELSE IF label \in ObjectPrototype THEN Inherited(label)
  ELSE Undefined

\* the cast of a value to a string where a regular expression tests it
StringOf(v) ==
  CASE v.t = "string" -> v.v
    [] v.t = "inherited" ->
         IF v.name = "__proto__" THEN "[object Object]"
         ELSE "function " \o v.name \o "() { [native code] }"

\* hid_usage_page_and_id_from_usage of '../hid-usages': the page is the upper
\* and the id the lower 16 bits of the usage code
hid_usage_page_and_id_from_usage(usage) ==
  <<(usage \div 65536) % 65536, usage % 65536>>

\* hid_usage_get_label of '../hid-usages': the label the usage tables db hold
\* for the usage, a Str(_), or Undefined when they hold none
hid_usage_get_label(db, page, id) == db[<<page, id>>]

\* modifierMap
modifierMap ==
  (224 :> "LCTRL") @@ (225 :> "LSHFT") @@ (226 :> "LALT") @@ (227 :> "LGUI")
  @@ (228 :> "RCTRL") @@ (229 :> "RSHFT") @@ (230 :> "RALT")
  @@ (231 :> "RGUI")

\* getZmkKeyName from the label on: overrides, single letters, then the
\* label cleaned up
nameOfLabel(label) ==
  IF Truthy(OverrideOf(label)) THEN OverrideOf(label)
  ELSE IF IsSingleUpper(label) THEN Str(label)
  ELSE LET cleanLabel == StripKeyboardPrefix(label)
       IN  Str(toUpperCase(TrimUnderscore(CollapseUnderscores(
                 ReplaceNonAlnum(cleanLabel)))))

\* getZmkKeyName that looks up the label of a usage of any page
getZmkKeyName_AnyPage(hidUsage, db) ==
  LET page == hid_usage_page_and_id_from_usage(hidUsage)[1]
      id == hid_usage_page_and_id_from_usage(hidUsage)[2]
      label == hid_usage_get_label(db, page, id)
  IN  IF page = HID_PAGE_KEYBOARD /\ id >= 224 /\ id <= 231
      THEN Str(modifierMap[id])
      ELSE IF ~Truthy(label) THEN Null
      ELSE nameOfLabel(label.v)

\* getZmkKeyName that names the modifiers by their labels, like every other
\* usage
getZmkKeyName_ModifiersByLabel(hidUsage, db) ==
  LET page == hid_usage_page_and_id_from_usage(hidUsage)[1]
      id == hid_usage_page_and_id_from_usage(hidUsage)[2]
      label == hid_usage_get_label(db, page, id)
  IN  IF page # HID_PAGE_KEYBOARD /\ page # HID_PAGE_CONSUMER THEN Null
      ELSE IF ~Truthy(label) THEN Null
      ELSE nameOfLabel(label.v)

\* static getZmkKeyName(hidUsage); db are the usage tables that the imported
\* hid_usage_get_label reads
getZmkKeyName(hidUsage, db) ==
  LET page == hid_usage_page_and_id_from_usage(hidUsage)[1]
      id == hid_usage_page_and_id_from_usage(hidUsage)[2]
      label == hid_usage_get_label(db, page, id)
  IN  IF page # HID_PAGE_KEYBOARD /\ page # HID_PAGE_CONSUMER THEN Null
      ELSE IF page = HID_PAGE_KEYBOARD /\ id >= 224 /\ id <= 231
      THEN (IF id \in DOMAIN modifierMap /\ Truthy(Str(modifierMap[id]))
            THEN Str(modifierMap[id])
            ELSE Null)
      ELSE IF ~Truthy(label) THEN Null
      ELSE nameOfLabel(label.v)

\* private static categorizeKey that lets any number of digits follow the N
categorizeKey_NDigits(zmkName) ==
  LET s == StringOf(zmkName)
  IN  IF IsSingleUpper(s) THEN "letter"
      ELSE IF (Len(s) >= 2 /\ CharAt(s, 1) = "N"
               /\ \A i \in 2..Len(s) : IsDigit(CharAt(s, i)))
              \/ IsFDigits(s)
      THEN (IF StartsWith(s, "F") THEN "function" ELSE "number")
      ELSE IF zmkName \in {Str(modifierMap[id]) : id \in DOMAIN modifierMap}
      THEN "modifier"
      ELSE "special"

\* private static categorizeKey(zmkName)
categorizeKey(zmkName) ==
  LET s == StringOf(zmkName)
  IN  IF IsSingleUpper(s) THEN "letter"
      ELSE IF IsNDigit(s) \/ IsFDigits(s)
      THEN (IF StartsWith(zmkName.v, "F") THEN "function" ELSE "number")
      ELSE IF zmkName \in {Str("LCTRL"), Str("LSHFT"), Str("LALT"),
                            Str("LGUI"), Str("RCTRL"), Str("RSHFT"),
                            Str("RALT"), Str("RGUI")}
      THEN "modifier"
      ELSE "special"

\* static isModifier that knows the left modifiers only
isModifier_LeftOnly(hidUsage, db) ==
  LET keyName == getZmkKeyName(hidUsage, db)
  IN  IF ~Truthy(keyName) THEN Bool(FALSE)
      ELSE Bool(keyName \in {Str("LCTRL"), Str("LSHFT"), Str("LALT"),
                             Str("LGUI")})

\* static isModifier(hidUsage)
isModifier(hidUsage, db) ==
  LET keyName == getZmkKeyName(hidUsage, db)
  IN  IF ~Truthy(keyName) THEN Bool(FALSE)
      ELSE Bool(keyName \in {Str("LCTRL"), Str("LSHFT"), Str("LALT"),
                             Str("LGUI"), Str("RCTRL"), Str("RSHFT"),
                             Str("RALT"), Str("RGUI")})

\* the KeyCode object literal that getKeyCode returns
KeyCode(hidUsage, zmkName, label, category) ==
  [t |-> "KeyCode", label |-> label, hidUsage |-> hidUsage,
   zmkName |-> zmkName, category |-> category]

\* static getKeyCode(hidUsage)
getKeyCode(hidUsage, db) ==
  LET zmkName == getZmkKeyName(hidUsage, db)
      page == hid_usage_page_and_id_from_usage(hidUsage)[1]
      id == hid_usage_page_and_id_from_usage(hidUsage)[2]
      label == IF Truthy(hid_usage_get_label(db, page, id))
               THEN hid_usage_get_label(db, page, id).v
               ELSE ""
  IN  IF ~Truthy(zmkName) THEN Null
      ELSE KeyCode(hidUsage, zmkName, label, categorizeKey(zmkName))

-----------------------------------------------------------------------------
(* The calls of HidMapper *)

\* hid(page, id) of the tests: (page << 16) + id
hid(page, id) == page * 65536 + id

\* the pages of the model: Generic Desktop, Keyboard and Consumer
HidPages == {1, HID_PAGE_KEYBOARD, HID_PAGE_CONSUMER}

\* the ids of the model: A, the 8 modifiers and the ids on either side of them
HidIds == {4} \cup 223..232

\* the usage codes of the model; 0xFFFF is the invalid code of the tests
HidUsages == {hid(page, id) : page \in HidPages, id \in HidIds} \cup {65535}

PageAndIds == {hid_usage_page_and_id_from_usage(u) : u \in HidUsages}

\* the labels of the model: letters, override keys, labels the fallback
\* cleans up, labels it reduces to nothing and a property of Object.prototype
Labels ==
  {"A", "a", "1", "Ctrl", "PGUP", "N10", "Keyboard Application",
   "Num Lock+Clr", "Keyboard ", "+", "_", "constructor"}

\* what the usage tables may hold for a usage: no label, the empty label or
\* one of Labels
LabelValues == {Undefined, Str("")} \cup {Str(l) : l \in Labels}

\* the usage tables of the model: each holds the same label for every usage
\* (so the same one for a left and a right modifier), or none for any
Databases == {[pi \in PageAndIds |-> l] : l \in LabelValues}

\* the names categorizeKey is called with
ZmkNames ==
  {"A", "F", "N", "Z", "N0", "N1", "N9", "N10", "NA", "F1", "F12", "F24",
   "F1A", "FN", "LCTRL", "LSHFT", "LALT", "LGUI", "RCTRL", "RSHFT", "RALT",
   "RGUI", "SPACE", "PG_UP", "a", "n1", "f1", "1"}

CallGetZmkKeyName(hidUsage, db) ==
  Returns("getZmkKeyName", [db |-> db, hidUsage |-> hidUsage],
          getZmkKeyName(hidUsage, db))

CallGetKeyCode(hidUsage, db) ==
  Returns("getKeyCode", [db |-> db, hidUsage |-> hidUsage],
          getKeyCode(hidUsage, db))

CallIsModifier(hidUsage, db) ==
  Returns("isModifier", [db |-> db, hidUsage |-> hidUsage],
          isModifier(hidUsage, db))

CallCategorizeKey(zmkName) ==
  Returns("categorizeKey", zmkName, Str(categorizeKey(zmkName)))

GetZmkKeyNameStep ==
  \E hidUsage \in HidUsages, db \in Databases :
    CallGetZmkKeyName(hidUsage, db)

GetKeyCodeStep ==
  \E hidUsage \in HidUsages, db \in Databases : CallGetKeyCode(hidUsage, db)

IsModifierStep ==
  \E hidUsage \in HidUsages, db \in Databases : CallIsModifier(hidUsage, db)

CategorizeKeyStep ==
  \E name \in ZmkNames : CallCategorizeKey(Str(name))

NextHid ==
  GetZmkKeyNameStep \/ GetKeyCodeStep \/ IsModifierStep \/ CategorizeKeyStep

SpecHid == Init /\ [][NextHid]_vars

-----------------------------------------------------------------------------
(* What the specification expects of the HID Usage Resolver *)

\* the page and the id of a usage code (page << 16) | id
PageOf(u) == u \div 65536
IdOf(u) == u % 65536

\* the fixed modifier table, indexed by id - 0xE0
ModifierTable ==
  <<"LCTRL", "LSHFT", "LALT", "LGUI", "RCTRL", "RSHFT", "RALT", "RGUI">>

ModifierIds == 224..231

EightModifiers == {Str(ModifierTable[i]) : i \in DOMAIN ModifierTable}

\* the last call was op, of a usage code and the usage tables
Resolved(op) == ret.op = op

\* the label the usage tables of the last call hold for its usage code
LabelOfCall == ret.arg.db[<<PageOf(ret.arg.hidUsage), IdOf(ret.arg.hidUsage)>>]

\* the fallback transformation of the labels of the model that are neither
\* override keys nor single uppercase letters
ExpectedFallback(label) ==
  CASE label = "a" -> "A"
    [] label = "N10" -> "N10"
    [] label = "Keyboard Application" -> "APPLICATION"
    [] label = "Num Lock+Clr" -> "NUM_LOCK_CLR"
    [] label = "Keyboard " -> ""
    [] label = "+" -> ""
    [] label = "_" -> ""
    [] label = "constructor" -> "CONSTRUCTOR"

\* only A-Z, 0-9 and '_', no two adjacent underscores, no underscore at
\* either end
WellFormedName(s) ==
  /\ \A i \in 1..Len(s) :
       IsUpper(CharAt(s, i)) \/ IsDigit(CharAt(s, i)) \/ CharAt(s, i) = "_"
  /\ \A i \in 1..(Len(s) - 1) : ~(CharAt(s, i) = "_" /\ CharAt(s, i + 1) = "_")
  /\ Len(s) > 0 => CharAt(s, 1) # "_" /\ CharAt(s, Len(s)) # "_"

\* the category of the names of the model, by the rules in order
ExpectedCategory(name) ==
  CASE name \in {"A", "F", "N", "Z"} -> "letter"
    [] name \in {"N0", "N1", "N9"} -> "number"
    [] name \in {"F1", "F12", "F24"} -> "function"
    [] name \in {"LCTRL", "LSHFT", "LALT", "LGUI", "RCTRL", "RSHFT", "RALT",
                 "RGUI"} -> "modifier"
    [] OTHER -> "special"

-----------------------------------------------------------------------------
(* The claims about HidMapper *)

\* C11: getZmkKeyName returns none for every usage code whose page is neither
\* 0x07 nor 0x0C, whatever its id and whatever label the usage tables hold.
C11_OtherPagesResolveToNone ==
  Resolved("getZmkKeyName") =>
    (PageOf(ret.arg.hidUsage) \notin {7, 12} => ret.result = Null)

\* C11 witness: a Generic Desktop usage that the tables label "A" resolved
\* to none
C11_Witness ==
  /\ Resolved("getZmkKeyName")
  /\ ret.arg.hidUsage = hid(1, 4)
  /\ LabelOfCall = Str("A")
  /\ ret.result = Null

C13_NeverEmptyName ==
  Resolved("getZmkKeyName") => ret.result # Str("")

\* C14: for a Keyboard or Consumer usage outside the modifier range whose
\* label is present, getZmkKeyName returns the mapped name of an override
\* key, a single uppercase letter itself, and otherwise the fallback
\* transformation of the label, which is a well-formed name.
C14_LabelToName ==
  Resolved("getZmkKeyName")
  /\ PageOf(ret.arg.hidUsage) \in {7, 12}
  /\ ~(PageOf(ret.arg.hidUsage) = 7 /\ IdOf(ret.arg.hidUsage) \in ModifierIds)
  /\ Truthy(LabelOfCall)
  => LET label == LabelOfCall.v
     IN  IF label \in DOMAIN KEY_NAME_OVERRIDES
         THEN ret.result = Str(KEY_NAME_OVERRIDES[label])
         ELSE IF label \in CharsOf(UpperCaseLetters)
         THEN ret.result = Str(label)
         ELSE /\ ret.result = Str(ExpectedFallback(label))
              /\ WellFormedName(ExpectedFallback(label))

\* C15: isModifier is true exactly when getZmkKeyName of the same usage code
\* is one of the 8 modifier names: true for the Keyboard ids 0xE0..0xE7 and
\* false for a usage code that resolves to none.
C15_IsModifier ==
  Resolved("isModifier") =>
    LET name == getZmkKeyName(ret.arg.hidUsage, ret.arg.db)
    IN  /\ ret.result = Bool(name \in EightModifiers)
        /\ PageOf(ret.arg.hidUsage) = 7
             /\ IdOf(ret.arg.hidUsage) \in ModifierIds
           => ret.result = Bool(TRUE)
        /\ name = Null => ret.result = Bool(FALSE)

\* C15 witness: isModifier of the right GUI key returned true
C15_Witness ==
  /\ Resolved("isModifier")
  /\ ret.arg.hidUsage = hid(7, 231)
  /\ ret.result = Bool(TRUE)

\* C16: categorizeKey gives a name the category of the first rule it meets:
\* a single uppercase letter is a letter, N and one digit a number, F and
\* digits a function key, a modifier name a modifier, the rest special.
C16_Categorize ==
  Resolved("categorizeKey") =>
    ret.result = Str(ExpectedCategory(ret.arg.v))

\* C16 witness: N10 was categorized as special
C16_Witness ==
  /\ Resolved("categorizeKey")
  /\ ret.arg = Str("N10")
  /\ ret.result = Str("special")

\* C20: getKeyCode returns none exactly when getZmkKeyName returns none for
\* the same usage code; otherwise its record holds the usage code, the name
\* getZmkKeyName returns and the category of that name.
C20_KeyCode ==
  Resolved("getKeyCode") =>
    LET name == getZmkKeyName(ret.arg.hidUsage, ret.arg.db)
    IN  /\ ret.result = Null <=> name = Null
        /\ ret.result # Null =>
             /\ ret.result.hidUsage = ret.arg.hidUsage
             /\ ret.result.zmkName = name
             /\ ret.result.category = categorizeKey(name)

-----------------------------------------------------------------------------
(* KeymapGenerator, as its specification and its tests describe it *)

\* the number of binding tokens of a row
BINDINGS_PER_ROW == 6

\* s.toLowerCase()
LowerChar(c) ==
  IF IsUpper(c)
  THEN LET i == CHOOSE j \in 1..Len(UpperCaseLetters) :
                  CharAt(UpperCaseLetters, j) = c
       IN  CharAt(LowerCaseLetters, i)
  ELSE c

RECURSIVE toLowerCase(_)
toLowerCase(s) ==
  IF s = "" THEN ""
  ELSE LowerChar(CharAt(s, 1)) \o toLowerCase(SubSeq(s, 2, Len(s)))

\* identifierFromLabel(label, casing): runs of non-alphanumeric characters
\* become one underscore, underscores at the ends go, then the case
identifierFromLabel(label, casing) ==
  LET ident == TrimUnderscore(CollapseUnderscores(ReplaceNonAlnum(label)))
  IN  IF casing = "upper" THEN toUpperCase(ident) ELSE toLowerCase(ident)

\* the resolver the generator hands to formatBinding: getZmkKeyName, for the
\* numbers a binding of the model holds as param1 or param2
resolveSymbolicName(db) ==
  [u \in HidUsages \cup 0..2 |-> getZmkKeyName(u, db)]

\* the bindings in ascending order of position, in a new sequence; bindings
\* of equal position keep their order
RECURSIVE sortByPosition(_)
sortByPosition(bindings) ==
  IF bindings = <<>> THEN <<>>
  ELSE LET last == bindings[Len(bindings)]
           sorted == sortByPosition(SubSeq(bindings, 1, Len(bindings) - 1))
           k == Cardinality({i \in 1..Len(sorted) :
                               sorted[i].position <= last.position})
       IN  SubSeq(sorted, 1, k) \o <<last>> \o SubSeq(sorted, k + 1, Len(sorted))

\* each binding formatted by the Behavior Formatter
formatBindings(bindings, db) ==
  [i \in 1..Len(bindings) |-> formatBinding(bindings[i], resolveSymbolicName(db))]

\* tokens.join(' ')
RECURSIVE JoinTokens(_)
JoinTokens(tokens) ==
  IF tokens = <<>> THEN ""
  ELSE IF Len(tokens) = 1 THEN tokens[1]
  ELSE tokens[1] \o " " \o JoinTokens(Tail(tokens))

\* the tokens in rows of BINDINGS_PER_ROW, the last row with what is left
RECURSIVE bindingRows(_)
bindingRows(tokens) ==
  IF Len(tokens) <= BINDINGS_PER_ROW THEN <<JoinTokens(tokens)>>
  ELSE <<JoinTokens(SubSeq(tokens, 1, BINDINGS_PER_ROW))>>
       \o bindingRows(SubSeq(tokens, BINDINGS_PER_ROW + 1, Len(tokens)))

\* the rows, one to a line
RECURSIVE rowLines(_)
rowLines(rows) ==
  IF rows = <<>> THEN ""
  ELSE "                " \o rows[1] \o "\n" \o rowLines(Tail(rows))

\* the DeviceTree node of a layer around its binding rows
layerNode(layer, rows) ==
  "        " \o identifierFromLabel(layer.label, "lower") \o "_layer {\n"
  \o "            label = \"" \o layer.label \o "\";\n"
  \o "            bindings = <\n"
  \o rowLines(rows)
  \o "            >;\n"
  \o "        };\n"

\* generateLayer that emits the bindings in the order the layer stores them
generateLayer_StorageOrder(layer, db) ==
  layerNode(layer, bindingRows(formatBindings(layer.bindings, db)))

\* generateLayer that puts all the tokens of a layer on one line
generateLayer_OneRow(layer, db) ==
  layerNode(layer,
            <<JoinTokens(formatBindings(sortByPosition(layer.bindings), db))>>)

\* generateLayer(layer)
generateLayer(layer, db) ==
  layerNode(layer,
            bindingRows(formatBindings(sortByPosition(layer.bindings), db)))

\* generateMetadata({timestamp, deviceName, version, layerCount})
generateMetadata(metadata) ==
  "/*\n"
  \o " * ZMK Keymap\n"
  \o " * Exported from ZMK Studio\n"
  \o " * Date: " \o metadata.timestamp \o "\n"
  \o " * Device: " \o metadata.deviceName \o "\n"
  \o " * Version: " \o metadata.version \o "\n"
  \o " * Layers: " \o toString(metadata.layerCount, 10) \o "\n"
  \o " */\n"

\* generateIncludes()
generateIncludes ==
  "#include <behaviors.dtsi>\n"
  \o "#include <dt-bindings/zmk/keys.h>\n"
  \o "#include <dt-bindings/zmk/bt.h>\n"

\* generateLayerConstants(layers), from the layer of index i on
RECURSIVE layerConstantsFrom(_, _)
layerConstantsFrom(layers, i) ==
  IF i > Len(layers) THEN ""
  ELSE "#define " \o identifierFromLabel(layers[i].label, "upper") \o " "
       \o toString(i - 1, 10) \o "\n" \o layerConstantsFrom(layers, i + 1)

\* generateLayerConstants(layers)
generateLayerConstants(layers) == layerConstantsFrom(layers, 1)

\* the nodes of the layers, in the order of the keymap
RECURSIVE layerNodes(_, _)
layerNodes(layers, db) ==
  IF layers = <<>> THEN ""
  ELSE generateLayer(layers[1], db) \o layerNodes(Tail(layers), db)

\* generateKeymap(layers)
generateKeymap(layers, db) ==
  "/ {\n"
  \o "    keymap {\n"
  \o "        compatible = \"zmk,keymap\";\n"
  \o layerNodes(layers, db)
  \o "    };\n"
  \o "};\n"

\* generateFooter()
generateFooter ==
  "/*\n"
  \o " * This export does not include:\n"
  \o " * - Combos\n"
  \o " * - Macros\n"
  \o " * - Custom behaviors\n"
  \o " * To use this file: copy it to the config of your keyboard.\n"
  \o " */\n"

\* generate(keymap); the timestamp of a keymap is held as its ISO-8601 text
generate(keymap, db) ==
  generateMetadata([timestamp |-> keymap.timestamp,
                    deviceName |-> keymap.deviceName,
                    version |-> keymap.version,
                    layerCount |-> Len(keymap.layers)])
  \o generateIncludes
  \o generateLayerConstants(keymap.layers)
  \o generateKeymap(keymap.layers, db)
  \o generateFooter

-----------------------------------------------------------------------------
(* The calls of KeymapGenerator and the callers that build its inputs *)

\* the bindings of the model without their position: a key the tables name,
\* one they do not name, a mod-tap without param2, an unknown behavior, a
\* transparent key, a layer switch, a layer-tap without param2 and a key
\* whose label has nothing for a name
Kinds ==
  <<[param2 |-> Null, param1 |-> hid(7, 4), behaviorId |-> 1],
    [param2 |-> Null, param1 |-> hid(7, 232), behaviorId |-> 1],
    [param2 |-> Null, param1 |-> hid(7, 224), behaviorId |-> 2],
    [param2 |-> Null, param1 |-> 0, behaviorId |-> 999],
    [param2 |-> Null, param1 |-> 0, behaviorId |-> 0],
    [param2 |-> Null, param1 |-> 1, behaviorId |-> 4],
    [param2 |-> Null, param1 |-> 1, behaviorId |-> 3],
    [param2 |-> Null, param1 |-> hid(7, 223), behaviorId |-> 1]>>

At(kind, position) ==
  [param2 |-> kind.param2, param1 |-> kind.param1,
   behaviorId |-> kind.behaviorId, position |-> position]

LayerObj(id, label, bindings) ==
  [t |-> "Layer", id |-> id, label |-> label, bindings |-> bindings]

\* the positions of the layers that hold the same bindings in every order
SparsePositions == <<0, 3, 7, 12>>

Orders ==
  {p \in [DOMAIN SparsePositions -> DOMAIN SparsePositions] :
     \A i, j \in DOMAIN p : p[i] = p[j] => i = j}

\* the first four kinds, stored in this order, at the positions p gives them
PermutedLayer(p) ==
  LayerObj(0, "Nav & Media",
           [i \in DOMAIN SparsePositions |-> At(Kinds[i], SparsePositions[p[i]])])

\* the numbers of bindings of the layers that fill rows
RowLengths == {0, 1, 6, 7, 12, 13}

\* a layer of n bindings, stored from the highest position down
RowLayer(n) ==
  LayerObj(1, "Full",
           [i \in 1..n |-> At(Kinds[((i - 1) % Len(Kinds)) + 1], n - i)])

Layers == {PermutedLayer(p) : p \in Orders} \cup {RowLayer(n) : n \in RowLengths}

RECURSIVE CountBindings(_)
CountBindings(layers) ==
  IF layers = <<>> THEN 0
  ELSE Len(layers[1].bindings) + CountBindings(Tail(layers))

KeymapObj(layers) ==
  [t |-> "Keymap", timestamp |-> "2025-11-09T10:00:00.000Z",
   deviceName |-> "test-keyboard", version |-> "1.0.0", layers |-> layers,
   totalBindings |-> CountBindings(layers)]

\* keymaps of no layer, one layer and two layers
Keymaps ==
  {KeymapObj(<<>>)}
  \cup {KeymapObj(<<RowLayer(n)>>) : n \in {0, 1, 7}}
  \cup {KeymapObj(<<PermutedLayer(p), RowLayer(n)>>) :
          p \in {q \in Orders : q[1] \in {1, 4} /\ q[2] = 2}, n \in {1, 7}}

\* usage tables that name A, label the modifiers alike and hold a label
\* without a letter or digit; and usage tables without any label
KeyboardDb ==
  [pi \in PageAndIds |->
    CASE pi = <<7, 4>> -> Str("A")
      [] pi = <<7, 223>> -> Str("+")
      [] pi[1] = 7 /\ pi[2] \in 224..231 -> Str("Ctrl")
      [] OTHER -> Undefined]

NoLabelsDb == [pi \in PageAndIds |-> Undefined]

GenDatabases == {KeyboardDb, NoLabelsDb}

\* a caller constructs a layer or a keymap; callers run one after the other
CallerBuilds(c, entity) ==
  /\ \A d \in Callers : held[d] = Undefined
  /\ held' = [held EXCEPT ![c] = entity]
  /\ UNCHANGED <<maps, recs, ret, memo, nmut>>

\* a caller drops what it built
CallerDiscards(c) ==
  /\ held[c] # Undefined
  /\ held' = [held EXCEPT ![c] = Undefined]
  /\ UNCHANGED <<maps, recs, ret, memo, nmut>>

\* generateLayer(layer) of the layer the caller holds; the layer is read only
CallGenerateLayer(c, db) ==
  /\ held[c].t = "Layer"
  /\ Returns("generateLayer", [db |-> db, layer |-> held[c]],
             Str(generateLayer(held[c], db)))

\* generate(keymap) of the keymap the caller holds
CallGenerate(c, db) ==
  /\ held[c].t = "Keymap"
  /\ Returns("generate", [db |-> db, keymap |-> held[c]],
             Str(generate(held[c], db)))

CallerBuildsStep ==
  \E c \in Callers, entity \in Layers \cup Keymaps : CallerBuilds(c, entity)

CallerDiscardsStep == \E c \in Callers : CallerDiscards(c)

GenerateLayerStep ==
  \E c \in Callers, db \in GenDatabases : CallGenerateLayer(c, db)

GenerateStep == \E c \in Callers, db \in GenDatabases : CallGenerate(c, db)

NextGen ==
  CallerBuildsStep \/ CallerDiscardsStep \/ GenerateLayerStep \/ GenerateStep

SpecGen == Init /\ [][NextGen]_vars

-----------------------------------------------------------------------------
(* What the specification expects of the Keymap Text Generator *)

\* the token of a binding of the model, written out
ExpectedToken(b, db) ==
  CASE b.behaviorId = 999 -> "/* Unknown behavior 999 */"
    [] b.behaviorId = 0 -> "&trans"
    [] b.behaviorId = 4 -> "&mo 1"
    [] b.behaviorId = 3 -> "&lt 1 /* missing key */"
    [] b.behaviorId = 2 -> "&mt LCTRL /* missing param2 */"
    [] b.behaviorId = 1 /\ b.param1 = hid(7, 4) ->
         IF db = KeyboardDb THEN "&kp A" ELSE "&kp /* HID 0x70004 */"
    [] b.behaviorId = 1 /\ b.param1 = hid(7, 232) -> "&kp /* HID 0x700e8 */"
    [] b.behaviorId = 1 /\ b.param1 = hid(7, 223) -> "&kp /* HID 0x700df */"

\* the bindings of a layer by ascending position (positions are distinct)
ByPosition(layer) ==
  LET bs == {layer.bindings[i] : i \in DOMAIN layer.bindings}
  IN  [k \in 1..Len(layer.bindings) |->
        CHOOSE b \in bs :
          Cardinality({c \in bs : c.position < b.position}) = k - 1]

ExpectedTokens(layer, db) ==
  [k \in 1..Len(layer.bindings) |-> ExpectedToken(ByPosition(layer)[k], db)]

\* tokens separated by single spaces
RECURSIVE Spaced(_)
Spaced(tokens) ==
  IF tokens = <<>> THEN ""
  ELSE IF Len(tokens) = 1 THEN tokens[1]
  ELSE tokens[1] \o " " \o Spaced(Tail(tokens))

\* the text without its leading spaces
RECURSIVE TrimLeft(_)
TrimLeft(s) ==
  IF s # "" /\ CharAt(s, 1) = " " THEN TrimLeft(SubSeq(s, 2, Len(s))) ELSE s

\* the lines of a text, each without its leading spaces
RECURSIVE Lines(_)
Lines(text) ==
  IF text = "" THEN <<>>
  ELSE LET ends == {i \in 1..Len(text) : CharAt(text, i) = "\n"} \cup {Len(text) + 1}
           k == CHOOSE i \in ends : \A j \in ends : i <= j
       IN  <<TrimLeft(SubSeq(text, 1, k - 1))>>
           \o Lines(SubSeq(text, k + 1, Len(text)))

\* the lines between "bindings = <" and the ">;" that closes it
BindingLines(text) ==
  LET ls == Lines(text)
      open == CHOOSE i \in DOMAIN ls : ls[i] = "bindings = <"
      close == CHOOSE i \in DOMAIN ls :
                 /\ i > open
                 /\ ls[i] = ">;"
                 /\ \A j \in (open + 1)..(i - 1) : ls[j] # ">;"
  IN  SubSeq(ls, open + 1, close - 1)

\* the number of rows of n tokens
ExpectedRowCount(n) == IF n <= 6 THEN 1 ELSE (n + 5) \div 6

\* row k of the tokens: tokens 6(k-1)+1 to 6k, or to the last
ExpectedRow(tokens, k) ==
  LET last == IF 6 * k <= Len(tokens) THEN 6 * k ELSE Len(tokens)
  IN  Spaced(SubSeq(tokens, 6 * (k - 1) + 1, last))

Contains(text, part) ==
  \E i \in 1..(Len(text) - Len(part) + 1) :
    SubSeq(text, i, i + Len(part) - 1) = part

SameBindings(l1, l2) ==
  {l1.bindings[i] : i \in DOMAIN l1.bindings}
    = {l2.bindings[i] : i \in DOMAIN l2.bindings}

-----------------------------------------------------------------------------
(* The claims about KeymapGenerator *)

C18_RowsOfSix ==
  ret.op = "generateLayer" =>
    LET rows == BindingLines(ret.result.v)
        tokens == ExpectedTokens(ret.arg.layer, ret.arg.db)
    IN  /\ Len(rows) = ExpectedRowCount(Len(tokens))
        /\ \A k \in DOMAIN rows : rows[k] = ExpectedRow(tokens, k)
        /\ Len(tokens) = 12 => Len(rows) = 2
        /\ Len(tokens) <= 6 => Len(rows) = 1

\* C18 witness: a layer of 13 bindings came out in 3 rows, the last of one
\* token
C18_Witness ==
  /\ ret.op = "generateLayer"
  /\ ret.arg.db = KeyboardDb
  /\ Len(ret.arg.layer.bindings) = 13
  /\ Len(BindingLines(ret.result.v)) = 3
  /\ BindingLines(ret.result.v)[3] = "&kp A"

\* the keymap of the last call of generate has a binding of this kind
HasKind(k) ==
  \E i \in DOMAIN ret.arg.keymap.layers :
    \E j \in DOMAIN ret.arg.keymap.layers[i].bindings :
      LET b == ret.arg.keymap.layers[i].bindings[j]
      IN  b.behaviorId = Kinds[k].behaviorId /\ b.param1 = Kinds[k].param1

-----------------------------------------------------------------------------
(* The tokens of formatBinding: calls under resolvers that name usage 0 *)

\* a resolver that names usage 0 and returns the empty string for the rest
resolveZero == [u \in ParamValues |-> IF u = 0 THEN Str("Z") ELSE Str("")]

TokenResolvers == Resolvers \cup {resolveZero}

\* every behaviorId, param1 and param2, at one position
TokenBindings == {b \in Bindings : b.position = 0}

TokenFormatBindingStep ==
  \E binding \in TokenBindings, getKeyName \in TokenResolvers :
    CallFormatBinding(binding, getKeyName)

NextTokens == TokenFormatBindingStep \/ Accessors

SpecTokens == Init /\ [][NextTokens]_vars

-----------------------------------------------------------------------------
(* What the specification expects of the parameter tokens *)

\* the token of param1: a key for kp and mt, a number for the rest
Param1Token(binding, getKeyName) ==
  IF binding.behaviorId \in {1, 2}
  THEN KeyOrMarker(getKeyName, binding.param1)
  ELSE ExpectedDecimal(binding.param1)

\* the token of param2 (mt and lt): a key, or the marker of its absence
Param2Token(binding, getKeyName) ==
  IF Absent(binding)
  THEN (IF binding.behaviorId = 3 THEN "/* missing key */"
        ELSE "/* missing param2 */")
  ELSE KeyOrMarker(getKeyName, binding.param2.v)

\* as many tokens as the behavior has parameters
ParamTokens(binding, getKeyName) ==
  CASE ExpectedParamCount(binding.behaviorId) = 0 -> <<>>
    [] ExpectedParamCount(binding.behaviorId) = 1 ->
         <<Param1Token(binding, getKeyName)>>
    [] ExpectedParamCount(binding.behaviorId) = 2 ->
         <<Param1Token(binding, getKeyName), Param2Token(binding, getKeyName)>>

\* the head followed by every token, one space before each
RECURSIVE Followed(_, _)
Followed(head, tokens) ==
  IF tokens = <<>> THEN head
  ELSE Followed(head \o " " \o Head(tokens), Tail(tokens))

-----------------------------------------------------------------------------
(* The claim about the tokens of formatBinding *)

\* C21: for every registered behavior and every resolver, formatBinding
\* returns '&', the registered code and exactly paramCount parameter tokens,
\* one space before each and none of them empty; a usage the resolver answers
\* with none or with the empty string is a comment marker, and a param2 equal
\* to 0 is present: it is resolved, never reported as missing.
C21_TokensPerParamCount ==
  Formatted(Registered) =>
    LET binding == ret.arg.binding
        getKeyName == ret.arg.getKeyName
        tokens == ParamTokens(binding, getKeyName)
    IN  /\ Len(tokens) = recs[binding.behaviorId].paramCount
        /\ \A i \in DOMAIN tokens : tokens[i] # ""
        /\ ret.result
             = Str(Followed("&" \o ExpectedCode(binding.behaviorId), tokens))
        /\ ~Contains(ret.result.v, "  ")
        /\ ~Contains(ret.result.v, "null")
        /\ binding.param2 = Num(0) => ~Contains(ret.result.v, "missing")
        /\ (binding.param2 = Num(0) /\ binding.behaviorId \in {2, 3}
              /\ getKeyName = resolveZero)
             => Contains(ret.result.v, " Z")

\* C21 witness: mod-tap of usage 0 twice, under the resolver that answers 0
\* with the empty string, returned two markers and no missing-param2 marker
C21_Witness ==
  /\ ret.op = "formatBinding"
  /\ ret.arg.binding.behaviorId = 2
  /\ ret.arg.binding.param1 = 0
  /\ ret.arg.binding.param2 = Num(0)
  /\ ret.arg.getKeyName = resolveAll
  /\ ret.result = Str("&mt /* HID 0x0 */ /* HID 0x0 */")

=============================================================================
